---- MODULE Spec2Model ----
(***************************************************************************)
(* Preprocessing of libfusn_extern.h inside one translation unit.          *)
(*                                                                         *)
(* The state is the preprocessor's macro table, the position inside the    *)
(* header, and the record of the #define and #include directives that the  *)
(* header's own text has executed.  Every directive line of the header is  *)
(* one action.  The translation unit around the header supplies the        *)
(* configuration symbols and may include the header several times.         *)
(***************************************************************************)
EXTENDS Integers, Sequences, FiniteSets, TLC

\* Number of times the translation unit includes the header.
MaxInclusions == 3

\* Macro names.
GUARD           == "_LIBFUSN_INTERNAL_EXTERN_H"
HAVE_LOCAL      == "HAVE_LOCAL_LIBFUSN"
WIN32           == "_WIN32"
DLL_EXPORT      == "DLL_EXPORT"
LIBFUSN_DLL_EXPORT == "LIBFUSN_DLL_EXPORT"
LIBFUSN_EXTERN  == "LIBFUSN_EXTERN"
LIBFUSN_EXTERN_VARIABLE == "LIBFUSN_EXTERN_VARIABLE"

\* Included files.
COMMON_H == "common.h"
EXTERN_H == "libfusn/extern.h"

\* The symbols the header tests with defined().
InputSymbols == {HAVE_LOCAL, WIN32, DLL_EXPORT}

\* The symbols the build environment may supply (command line, common.h).
EnvSymbols == InputSymbols \cup {LIBFUSN_DLL_EXPORT}

\* The macros the header's text names in a #define.
HeaderMacros == {GUARD, LIBFUSN_DLL_EXPORT, LIBFUSN_EXTERN, LIBFUSN_EXTERN_VARIABLE}

\* Replacement list of a symbol defined by the environment (-DNAME).
EnvBody == <<"1">>

VARIABLES
    macros,      \* macro table: defined name -> replacement list (token sequence)
    pc,          \* "tu", a header line "L22".."L48", or "failed"
    log,         \* #define / #include directives executed by the header's text
    inclusions,  \* completed inclusions of the header
    companion,   \* TRUE iff libfusn/extern.h exists on the include path
    snap         \* macro table recorded at points of the first inclusion

vars == <<macros, pc, log, inclusions, companion, snap>>

----------------------------------------------------------------------------
(* Preprocessor primitives *)

\* defined( m )
Defined(m) == m \in DOMAIN macros

\* The macro table after  #define m body
Define(tbl, m, body) ==
    [n \in (DOMAIN tbl) \cup {m} |-> IF n = m THEN body ELSE tbl[n]]

\* The macro table after defining every name of S with the body b.
DefineAll(tbl, S, b) ==
    [n \in (DOMAIN tbl) \cup S |-> IF n \in S THEN b ELSE tbl[n]]

\* The macro table after  #undef m
Undef(tbl, m) == [n \in (DOMAIN tbl) \ {m} |-> tbl[n]]

DefineEvent(m, body) == [op |-> "define", name |-> m, body |-> body]
IncludeEvent(f)      == [op |-> "include", name |-> f, body |-> <<>>]

\* Macro expansion of a token sequence: an object-like macro is replaced by
\* its replacement list, which is rescanned; a macro is not replaced again
\* inside its own expansion.
RECURSIVE ExpandTokens(_, _, _)
ExpandTokens(tbl, toks, hide) ==
    IF toks = <<>> THEN <<>>
    ELSE LET t == Head(toks) IN
         (IF t \in DOMAIN tbl /\ t \notin hide
          THEN ExpandTokens(tbl, tbl[t], hide \cup {t})
          ELSE <<t>>) \o ExpandTokens(tbl, Tail(toks), hide)

\* What a use of the macro m expands to under the current macro table.
Expand(m) == ExpandTokens(macros, <<m>>, {})

\* Record the macro table at point p (first inclusion only).
Snap(p) == IF p \in DOMAIN snap THEN snap ELSE snap @@ (p :> macros)

----------------------------------------------------------------------------
(* Files outside the header *)

\* common.h: may define configuration symbols (config.h).
CommonH(tbl, S) == DefineAll(tbl, S \ DOMAIN tbl, EnvBody)

\* libfusn/extern.h: supplies LIBFUSN_EXTERN with the export annotation when
\* LIBFUSN_DLL_EXPORT is defined and with the import annotation otherwise.
ExternH(tbl) ==
    Define(tbl, LIBFUSN_EXTERN,
           IF LIBFUSN_DLL_EXPORT \in DOMAIN tbl THEN <<"dllexport">>
                                                ELSE <<"dllimport">>)

----------------------------------------------------------------------------
Init ==
    /\ \E S \in SUBSET EnvSymbols : macros = DefineAll(<< >>, S, EnvBody)
    /\ pc = "tu"
    /\ log = <<>>
    /\ inclusions = 0
    /\ companion \in BOOLEAN
    /\ snap = << >>

(* The translation unit, between inclusions *)

TUDefine ==
    /\ pc = "tu"
    /\ \E s \in InputSymbols :
          /\ ~Defined(s)
          /\ macros' = Define(macros, s, EnvBody)
    /\ UNCHANGED <<pc, log, inclusions, companion, snap>>

TUUndef ==
    /\ pc = "tu"
    /\ \E s \in InputSymbols :
          /\ Defined(s)
          /\ macros' = Undef(macros, s)
    /\ UNCHANGED <<pc, log, inclusions, companion, snap>>

\* #include "libfusn_extern.h"
IncludeHeader ==
    /\ pc = "tu"
    /\ inclusions < MaxInclusions
    /\ pc' = "L22"
    /\ snap' = Snap("entry")
    /\ UNCHANGED <<macros, log, inclusions, companion>>

(* The header, one directive per action *)

\* #if !defined( _LIBFUSN_INTERNAL_EXTERN_H )
L22 ==
    /\ pc = "L22"
    /\ pc' = IF ~Defined(GUARD) THEN "L23" ELSE "L48"
    /\ UNCHANGED <<macros, log, inclusions, companion, snap>>

\* L23 with a misspelt guard name.
L23_typo ==
    /\ pc = "L23"
    /\ macros' = Define(macros, "_LIBFUSN_EXTERN_H", <<>>)
    /\ log' = Append(log, DefineEvent("_LIBFUSN_EXTERN_H", <<>>))
    /\ pc' = "L25"
    /\ UNCHANGED <<inclusions, companion, snap>>

\* L23 followed directly by the HAVE_LOCAL_LIBFUSN test (common.h not included).
L23_skip ==
    /\ pc = "L23"
    /\ macros' = Define(macros, GUARD, <<>>)
    /\ log' = Append(log, DefineEvent(GUARD, <<>>))
    /\ pc' = "L29"
    /\ UNCHANGED <<inclusions, companion, snap>>

\* #define _LIBFUSN_INTERNAL_EXTERN_H
L23 ==
    /\ pc = "L23"
    /\ macros' = Define(macros, GUARD, <<>>)
    /\ log' = Append(log, DefineEvent(GUARD, <<>>))
    /\ pc' = "L25"
    /\ UNCHANGED <<inclusions, companion, snap>>

\* #include <common.h>
L25 ==
    /\ pc = "L25"
    /\ \E S \in SUBSET EnvSymbols : macros' = CommonH(macros, S)
    /\ log' = Append(log, IncludeEvent(COMMON_H))
    /\ pc' = "L29"
    /\ UNCHANGED <<inclusions, companion, snap>>

\* L29 with the negation dropped: #if defined( HAVE_LOCAL_LIBFUSN )
L29_inverted ==
    /\ pc = "L29"
    /\ pc' = IF Defined(HAVE_LOCAL) THEN "L34" ELSE "L43"
    /\ snap' = Snap("test")
    /\ UNCHANGED <<macros, log, inclusions, companion>>

\* L29 testing the wrong symbol: #if !defined( HAVE_LOCAL_LIBFSNTFS )
L29_wrong ==
    /\ pc = "L29"
    /\ pc' = IF ~Defined("HAVE_LOCAL_LIBFSNTFS") THEN "L34" ELSE "L43"
    /\ snap' = Snap("test")
    /\ UNCHANGED <<macros, log, inclusions, companion>>

\* #if !defined( HAVE_LOCAL_LIBFUSN ) ... #else
L29 ==
    /\ pc = "L29"
    /\ pc' = IF ~Defined(HAVE_LOCAL) THEN "L34" ELSE "L43"
    /\ snap' = Snap("test")
    /\ UNCHANGED <<macros, log, inclusions, companion>>

\* L34 with || in place of &&.
L34_or ==
    /\ pc = "L34"
    /\ pc' = IF Defined(WIN32) \/ Defined(DLL_EXPORT) THEN "L35" ELSE "L38"
    /\ UNCHANGED <<macros, log, inclusions, companion, snap>>

\* L34 testing _WIN32 only.
L34_win ==
    /\ pc = "L34"
    /\ pc' = IF Defined(WIN32) THEN "L35" ELSE "L38"
    /\ UNCHANGED <<macros, log, inclusions, companion, snap>>

\* #if defined( _WIN32 ) && defined( DLL_EXPORT )
L34 ==
    /\ pc = "L34"
    /\ pc' = IF Defined(WIN32) /\ Defined(DLL_EXPORT) THEN "L35" ELSE "L38"
    /\ UNCHANGED <<macros, log, inclusions, companion, snap>>

\* L35 defining the import symbol.
L35_import ==
    /\ pc = "L35"
    /\ macros' = Define(macros, "LIBFUSN_DLL_IMPORT", <<>>)
    /\ log' = Append(log, DefineEvent("LIBFUSN_DLL_IMPORT", <<>>))
    /\ pc' = "L38"
    /\ UNCHANGED <<inclusions, companion, snap>>

\* L35 defining the libtool symbol itself.
L35_input ==
    /\ pc = "L35"
    /\ macros' = Define(macros, DLL_EXPORT, <<>>)
    /\ log' = Append(log, DefineEvent(DLL_EXPORT, <<>>))
    /\ pc' = "L38"
    /\ UNCHANGED <<inclusions, companion, snap>>

\* #define LIBFUSN_DLL_EXPORT
L35 ==
    /\ pc = "L35"
    /\ macros' = Define(macros, LIBFUSN_DLL_EXPORT, <<>>)
    /\ log' = Append(log, DefineEvent(LIBFUSN_DLL_EXPORT, <<>>))
    /\ pc' = "L38"
    /\ UNCHANGED <<inclusions, companion, snap>>

\* #include <libfusn/extern.h>
L38 ==
    /\ pc = "L38"
    /\ log' = Append(log, IncludeEvent(EXTERN_H))
    /\ snap' = Snap("include")
    /\ IF companion
       THEN macros' = ExternH(macros) /\ pc' = "L40"
       ELSE macros' = macros /\ pc' = "failed"
    /\ UNCHANGED <<inclusions, companion>>

\* L40 with the local branch's replacement list.
L40_extern ==
    /\ pc = "L40"
    /\ macros' = Define(macros, LIBFUSN_EXTERN_VARIABLE, <<"extern">>)
    /\ log' = Append(log, DefineEvent(LIBFUSN_EXTERN_VARIABLE, <<"extern">>))
    /\ pc' = "L48"
    /\ UNCHANGED <<inclusions, companion, snap>>

\* #define LIBFUSN_EXTERN_VARIABLE LIBFUSN_EXTERN
L40 ==
    /\ pc = "L40"
    /\ macros' = Define(macros, LIBFUSN_EXTERN_VARIABLE, <<LIBFUSN_EXTERN>>)
    /\ log' = Append(log, DefineEvent(LIBFUSN_EXTERN_VARIABLE, <<LIBFUSN_EXTERN>>))
    /\ pc' = "L48"
    /\ UNCHANGED <<inclusions, companion, snap>>

\* #define LIBFUSN_EXTERN /* extern */
L43 ==
    /\ pc = "L43"
    /\ macros' = Define(macros, LIBFUSN_EXTERN, <<>>)
    /\ log' = Append(log, DefineEvent(LIBFUSN_EXTERN, <<>>))
    /\ pc' = "L44"
    /\ UNCHANGED <<inclusions, companion, snap>>

\* L44 with the shared branch's replacement list.
L44_macro ==
    /\ pc = "L44"
    /\ macros' = Define(macros, LIBFUSN_EXTERN_VARIABLE, <<LIBFUSN_EXTERN>>)
    /\ log' = Append(log, DefineEvent(LIBFUSN_EXTERN_VARIABLE, <<LIBFUSN_EXTERN>>))
    /\ pc' = "L48"
    /\ UNCHANGED <<inclusions, companion, snap>>

\* #define LIBFUSN_EXTERN_VARIABLE extern
L44 ==
    /\ pc = "L44"
    /\ macros' = Define(macros, LIBFUSN_EXTERN_VARIABLE, <<"extern">>)
    /\ log' = Append(log, DefineEvent(LIBFUSN_EXTERN_VARIABLE, <<"extern">>))
    /\ pc' = "L48"
    /\ UNCHANGED <<inclusions, companion, snap>>

\* #endif /* !defined( _LIBFUSN_INTERNAL_EXTERN_H ) */
L48 ==
    /\ pc = "L48"
    /\ pc' = "tu"
    /\ inclusions' = inclusions + 1
    /\ snap' = Snap("end")
    /\ UNCHANGED <<macros, log, companion>>

Next ==
    \/ TUDefine
    \/ TUUndef
    \/ IncludeHeader
    \/ L22
    \/ L23
    \/ L25
    \/ L29
    \/ L34
    \/ L35
    \/ L38
    \/ L40
    \/ L43
    \/ L44
    \/ L48

Spec == Init /\ [][Next]_vars

----------------------------------------------------------------------------
(* Vocabulary of the properties *)

\* The header's text has executed  #define m ...
HeaderDefines(m) == \E i \in 1..Len(log) : log[i].op = "define" /\ log[i].name = m

\* The header's text has executed  #include <f>
Included(f) == \E i \in 1..Len(log) : log[i] = IncludeEvent(f)

\* Position of the first directive of the log that satisfies the test.
FirstDefine(m) == CHOOSE i \in 1..Len(log) :
    /\ log[i].op = "define" /\ log[i].name = m
    /\ \A j \in 1..(i-1) : ~(log[j].op = "define" /\ log[j].name = m)
FirstInclude(f) == CHOOSE i \in 1..Len(log) :
    /\ log[i] = IncludeEvent(f)
    /\ \A j \in 1..(i-1) : log[j] # IncludeEvent(f)

\* The configuration the first inclusion has tested (line 29 evaluated).
Tested   == "test" \in DOMAIN snap
CfgLocal == HAVE_LOCAL \in DOMAIN snap["test"]
CfgWinDll == WIN32 \in DOMAIN snap["test"] /\ DLL_EXPORT \in DOMAIN snap["test"]

\* The first inclusion has taken its branch to the end or to the failure.
Selected == Tested /\ pc \notin {"L34", "L35", "L38", "L43", "L44", "L40"}

\* The first inclusion has completed.
Completed == inclusions >= 1

\* The three linkage modes, read from the directives the header executed.
LocalMode ==
    /\ ~Included(EXTERN_H)
    /\ ~HeaderDefines(LIBFUSN_DLL_EXPORT)
    /\ HeaderDefines(LIBFUSN_EXTERN)
ExportMode ==
    /\ Included(EXTERN_H)
    /\ HeaderDefines(LIBFUSN_DLL_EXPORT)
    /\ ~HeaderDefines(LIBFUSN_EXTERN)
ImportMode ==
    /\ Included(EXTERN_H)
    /\ ~HeaderDefines(LIBFUSN_DLL_EXPORT)
    /\ ~HeaderDefines(LIBFUSN_EXTERN)

DllAnnotations == {"dllexport", "dllimport"}
HasDllAnnotation(toks) == \E i \in 1..Len(toks) : toks[i] \in DllAnnotations

----------------------------------------------------------------------------
(* Properties *)

\* C1: when HAVE_LOCAL_LIBFUSN is defined at the first inclusion (whatever
\* _WIN32 and DLL_EXPORT are), after the inclusion LIBFUSN_EXTERN is defined
\* and expands to nothing and LIBFUSN_EXTERN_VARIABLE is defined and expands
\* to the single token extern.
C1_LocalExpansions ==
    (Completed /\ HAVE_LOCAL \in DOMAIN snap["entry"]) =>
        /\ Defined(LIBFUSN_EXTERN)
        /\ Expand(LIBFUSN_EXTERN) = <<>>
        /\ Defined(LIBFUSN_EXTERN_VARIABLE)
        /\ Expand(LIBFUSN_EXTERN_VARIABLE) = <<"extern">>

C1_Witness ==
    /\ Completed
    /\ {HAVE_LOCAL, WIN32, DLL_EXPORT} \subseteq DOMAIN snap["entry"]
    /\ Expand(LIBFUSN_EXTERN_VARIABLE) = <<"extern">>

\* C2: when HAVE_LOCAL_LIBFUSN is defined, the header never includes
\* libfusn/extern.h and never defines LIBFUSN_DLL_EXPORT, even with _WIN32
\* and DLL_EXPORT defined; the inclusion does not fail when the companion
\* header is absent and LIBFUSN_EXTERN carries no dynamic-library annotation.
C2_LocalNeedsNoCompanion ==
    (Tested /\ CfgLocal) =>
        /\ ~Included(EXTERN_H)
        /\ ~HeaderDefines(LIBFUSN_DLL_EXPORT)
        /\ pc # "failed"
        /\ Completed => /\ ~HasDllAnnotation(Expand(LIBFUSN_EXTERN))
                        /\ ~HasDllAnnotation(Expand(LIBFUSN_EXTERN_VARIABLE))

C2_Witness ==
    /\ Completed
    /\ ~companion
    /\ CfgLocal /\ CfgWinDll
    /\ ~Included(EXTERN_H)

\* C3: when HAVE_LOCAL_LIBFUSN is undefined and _WIN32 and DLL_EXPORT are
\* both defined, the header includes libfusn/extern.h, its #define of
\* LIBFUSN_DLL_EXPORT precedes that #include, LIBFUSN_DLL_EXPORT is defined
\* at the point of the #include, and the export annotation is the one selected.
C3_ExportDefinedBeforeInclude ==
    (Selected /\ ~CfgLocal /\ CfgWinDll) =>
        /\ Included(EXTERN_H)
        /\ HeaderDefines(LIBFUSN_DLL_EXPORT)
        /\ FirstDefine(LIBFUSN_DLL_EXPORT) < FirstInclude(EXTERN_H)
        /\ LIBFUSN_DLL_EXPORT \in DOMAIN snap["include"]
        /\ companion => Expand(LIBFUSN_EXTERN) = <<"dllexport">>

C3_Witness ==
    /\ Completed
    /\ ~CfgLocal /\ CfgWinDll
    /\ LIBFUSN_DLL_EXPORT \notin DOMAIN snap["entry"]
    /\ Expand(LIBFUSN_EXTERN) = <<"dllexport">>

\* C4 (as stated): when HAVE_LOCAL_LIBFUSN is undefined and _WIN32 and
\* DLL_EXPORT are not both defined, libfusn/extern.h is included with
\* LIBFUSN_DLL_EXPORT undefined at the point of the #include, so the import
\* annotation is selected, whatever the build environment supplies.
C4_ImportForEveryEnvironment ==
    (Selected /\ ~CfgLocal /\ ~CfgWinDll) =>
        /\ Included(EXTERN_H)
        /\ LIBFUSN_DLL_EXPORT \notin DOMAIN snap["include"]
        /\ companion => Expand(LIBFUSN_EXTERN) = <<"dllimport">>

\* C4 (amended): when HAVE_LOCAL_LIBFUSN is undefined and _WIN32 and
\* DLL_EXPORT are not both defined, libfusn/extern.h is included and the
\* header itself does not define LIBFUSN_DLL_EXPORT: at the point of the
\* #include LIBFUSN_DLL_EXPORT is defined exactly when the build environment
\* had defined it before line 29, and the import annotation is selected
\* exactly when the environment had left it undefined.
C4_ImportUnlessEnvironmentExports ==
    (Selected /\ ~CfgLocal /\ ~CfgWinDll) =>
        /\ Included(EXTERN_H)
        /\ ~HeaderDefines(LIBFUSN_DLL_EXPORT)
        /\ LIBFUSN_DLL_EXPORT \in DOMAIN snap["include"]
              <=> LIBFUSN_DLL_EXPORT \in DOMAIN snap["test"]
        /\ companion =>
              (Expand(LIBFUSN_EXTERN) = <<"dllimport">>
                  <=> LIBFUSN_DLL_EXPORT \notin DOMAIN snap["test"])

C4_Witness ==
    /\ Completed
    /\ ~CfgLocal
    /\ DLL_EXPORT \in DOMAIN snap["test"] /\ WIN32 \notin DOMAIN snap["test"]
    /\ LIBFUSN_DLL_EXPORT \notin DOMAIN snap["test"]
    /\ Expand(LIBFUSN_EXTERN) = <<"dllimport">>

\* C5: inclusion is idempotent.  The first inclusion defines the guard
\* first of all; no macro is defined twice by the header; a later inclusion
\* executes no #define and no #include and leaves the macro table as it is,
\* so between inclusions the header's macros are what the first inclusion
\* left, even when the input symbols were changed in between.
C5_State ==
    /\ Completed => /\ Defined(GUARD)
                    /\ log[1] = DefineEvent(GUARD, <<>>)
    /\ \A i, j \in 1..Len(log) :
          (log[i].op = "define" /\ log[j].op = "define"
              /\ log[i].name = log[j].name) => i = j
    /\ \A i, j \in 1..Len(log) :
          (log[i].op = "include" /\ log[j].op = "include"
              /\ log[i].name = log[j].name) => i = j
    /\ (Completed /\ pc = "tu") =>
          \A m \in HeaderMacros :
              /\ m \in DOMAIN macros <=> m \in DOMAIN snap["end"]
              /\ m \in DOMAIN macros => macros[m] = snap["end"][m]

C5_Step ==
    (Completed /\ pc # "tu") => (macros' = macros /\ log' = log)

C5_Idempotent == [](C5_State) /\ [][C5_Step]_vars

C5_Witness ==
    /\ inclusions >= 2
    /\ CfgLocal /\ ~Defined(HAVE_LOCAL)
    /\ Defined(WIN32) /\ Defined(DLL_EXPORT)
    /\ Len(log) = 4

\* C6: for every combination of HAVE_LOCAL_LIBFUSN, _WIN32 and DLL_EXPORT the
\* first inclusion selects exactly one linkage mode: local when
\* HAVE_LOCAL_LIBFUSN is defined, export when it is not and _WIN32 and
\* DLL_EXPORT both are, import otherwise.
C6_ExactlyOneMode ==
    Selected =>
        /\ LocalMode \/ ExportMode \/ ImportMode
        /\ ~(LocalMode /\ ExportMode)
        /\ ~(LocalMode /\ ImportMode)
        /\ ~(ExportMode /\ ImportMode)
        /\ LocalMode  <=> CfgLocal
        /\ ExportMode <=> (~CfgLocal /\ CfgWinDll)
        /\ ImportMode <=> (~CfgLocal /\ ~CfgWinDll)

C6_Witness ==
    /\ Selected /\ ExportMode
    /\ pc = "failed"

\* The directives of the shared branch when LIBFUSN_DLL_EXPORT is not set.
ImportDirectives ==
    << DefineEvent(GUARD, <<>>),
       IncludeEvent(COMMON_H),
       IncludeEvent(EXTERN_H),
       DefineEvent(LIBFUSN_EXTERN_VARIABLE, <<LIBFUSN_EXTERN>>) >>

\* C7: the header defines LIBFUSN_DLL_EXPORT if and only if
\* HAVE_LOCAL_LIBFUSN is undefined and _WIN32 and DLL_EXPORT are both
\* defined; with only one of _WIN32 and DLL_EXPORT defined the header
\* executes the same defines and includes as with neither.
C7_ExportIffWinAndDll ==
    Selected =>
        /\ HeaderDefines(LIBFUSN_DLL_EXPORT) <=> (~CfgLocal /\ CfgWinDll)
        /\ (Completed /\ ~CfgLocal /\ ~CfgWinDll) => log = ImportDirectives

C7_Witness ==
    /\ Completed
    /\ ~CfgLocal
    /\ WIN32 \in DOMAIN snap["test"] /\ DLL_EXPORT \notin DOMAIN snap["test"]
    /\ log = ImportDirectives

\* C8: HAVE_LOCAL_LIBFUSN is tested only after common.h has been included,
\* common.h is included by the first inclusion in every mode, and when
\* common.h defines HAVE_LOCAL_LIBFUSN the local mode is selected and
\* libfusn/extern.h is not included although the translation unit had not
\* defined HAVE_LOCAL_LIBFUSN.
C8_TestAfterCommon ==
    /\ (pc = "L29" \/ Tested) =>
          (Len(log) >= 2 /\ log[2] = IncludeEvent(COMMON_H))
    /\ (Selected /\ HAVE_LOCAL \notin DOMAIN snap["entry"]
                 /\ HAVE_LOCAL \in DOMAIN snap["test"]) =>
          (LocalMode /\ ~Included(EXTERN_H))

C8_Witness ==
    /\ Completed
    /\ HAVE_LOCAL \notin DOMAIN snap["entry"]
    /\ HAVE_LOCAL \in DOMAIN snap["test"]
    /\ LocalMode

\* C9: when HAVE_LOCAL_LIBFUSN is undefined, LIBFUSN_EXTERN_VARIABLE is
\* defined as LIBFUSN_EXTERN after libfusn/extern.h has been included, the
\* header does not define LIBFUSN_EXTERN itself, and both macros expand to
\* the same annotation, the one libfusn/extern.h supplied.
C9_VariableFollowsExtern ==
    (Completed /\ ~CfgLocal) =>
        /\ ~HeaderDefines(LIBFUSN_EXTERN)
        /\ HeaderDefines(LIBFUSN_EXTERN_VARIABLE)
        /\ FirstInclude(EXTERN_H) < FirstDefine(LIBFUSN_EXTERN_VARIABLE)
        /\ macros[LIBFUSN_EXTERN_VARIABLE] = <<LIBFUSN_EXTERN>>
        /\ Expand(LIBFUSN_EXTERN_VARIABLE) = Expand(LIBFUSN_EXTERN)
        /\ Expand(LIBFUSN_EXTERN_VARIABLE) = ExternH(snap["include"])[LIBFUSN_EXTERN]

C9_Witness ==
    /\ Completed
    /\ ~CfgLocal /\ CfgWinDll
    /\ Expand(LIBFUSN_EXTERN_VARIABLE) = <<"dllexport">>

\* The lines whose step is a directive of the header's own text acting on
\* the macro table (the two #include lines bring in another file's text).
OwnTextLines == {"L22", "L23", "L29", "L34", "L35", "L40", "L43", "L44", "L48"}

\* C10: the header's own text never defines, redefines or undefines
\* HAVE_LOCAL_LIBFUSN, _WIN32 or DLL_EXPORT and never undefines a macro; the
\* only macros it defines are _LIBFUSN_INTERNAL_EXTERN_H, LIBFUSN_DLL_EXPORT,
\* LIBFUSN_EXTERN and LIBFUSN_EXTERN_VARIABLE.
C10_Step ==
    /\ \A i \in 1..Len(log') :
          log'[i].op = "define" =>
              (log'[i].name \in HeaderMacros /\ log'[i].name \notin InputSymbols)
    /\ pc \in OwnTextLines =>
          /\ DOMAIN macros \subseteq DOMAIN macros'
          /\ \A m \in DOMAIN macros' :
                (m \notin DOMAIN macros \/ macros'[m] # macros[m])
                    => m \in HeaderMacros
          /\ \A s \in InputSymbols :
                /\ s \in DOMAIN macros' <=> s \in DOMAIN macros
                /\ s \in DOMAIN macros => macros'[s] = macros[s]

C10_InputsUntouched == [][C10_Step]_vars

C10_Witness ==
    /\ inclusions >= 2
    /\ ExportMode
    /\ snap["test"][DLL_EXPORT] = EnvBody
    /\ snap["end"][DLL_EXPORT] = EnvBody

====
